---- MODULE Spec2Model ----
(***************************************************************************)
(* Model of the in-memory ledger of octopussy                              *)
(* (src/src/memory_processor.rs, src/src/transaction.rs).                  *)
(*                                                                         *)
(* The store is the pair of maps of InMemoryTransactionDb: clients and     *)
(* transaction_history.  Each of the five operations of the trait          *)
(* TransactionProcessor is an operator that maps a store and the call's    *)
(* arguments to the returned Result and the store the call leaves behind   *)
(* (also on the error returns: a `?` or `return Err` keeps whatever the    *)
(* statements before it did).  Decimal amounts are modelled as integers,   *)
(* a fixed number of minor units; rust_decimal's rescaling and its         *)
(* overflow panic are outside the model.                                   *)
(***************************************************************************)
EXTENDS Integers, FiniteSets, Sequences, TLC

\* ---- bounds ----
MaxClient == 2
MaxTx == 2
MaxAmount == 1
MaxEvents == 5
MaxRunTx == 4
MaxRows == 3
MaxSnapEvents == 4
MaxSetupEvents == 2
MaxCycleEvents == 8

\* csv.rs: const DECIMAL_PLACES
DECIMAL_PLACES == 5

ClientIds == 1..MaxClient
TransactionIds == 1..MaxTx
Amounts == 0..MaxAmount

VARIABLES
  clients,              \* InMemoryTransactionDb.clients
  transaction_history,  \* InMemoryTransactionDb.transaction_history
  event,                \* the last call: kind, tx, client, amount
  result,               \* what the last call returned
  before,               \* the store as it was when the last call was made
  prevEvent,            \* the call before the last one
  prevResult,           \* what that call returned
  before2,              \* the store as it was when that call was made
  depositRun,           \* bookkeeping of a run made of deposits only
  chargebacked,         \* the keys (client, tx) a chargeback has succeeded on
  disputeRun,           \* bookkeeping of a run of dispute/resolve calls on one key
  nEvents,              \* number of calls made so far
  row,                  \* csv_processor: the last TransactionRow read
  rowsRead,             \* csv_processor: number of rows read
  runResult,            \* csv_processor: "running", or what the run returned
  output,               \* csv_processor: the ClientRows written
  summaries,            \* the items the last clients_iter() call yielded
  prevSummaries         \* the items the clients_iter() call before it yielded

vars == <<clients, transaction_history, event, result, before,
          prevEvent, prevResult, before2, depositRun, chargebacked, disputeRun,
          nEvents, row, rowsRead, runResult, output, summaries, prevSummaries>>

runVars == <<row, rowsRead, runResult, output>>
snapVars == <<summaries, prevSummaries>>

\* ---- Result<(), TransactionError> ----
Ok == [kind |-> "Ok"]
ClientNotFound(client_id) == [kind |-> "ClientNotFound", client_id |-> client_id]
InsufficientFunds(client_id, transaction_id, available, amount) ==
  [kind |-> "InsufficientFunds", client_id |-> client_id,
   transaction_id |-> transaction_id, available |-> available, amount |-> amount]
AccountFrozen(client_id) == [kind |-> "AccountFrozen", client_id |-> client_id]
AlreadyDisputed(client_id, transaction_id) ==
  [kind |-> "AlreadyDisputed", client_id |-> client_id, transaction_id |-> transaction_id]
NotDisputed(client_id, transaction_id) ==
  [kind |-> "NotDisputed", client_id |-> client_id, transaction_id |-> transaction_id]
TransactionNotFound(client_id, transaction_id) ==
  [kind |-> "TransactionNotFound", client_id |-> client_id, transaction_id |-> transaction_id]
DuplicateTransaction(client_id, transaction_id) ==
  [kind |-> "DuplicateTransaction", client_id |-> client_id, transaction_id |-> transaction_id]

ErrorKinds == {"ClientNotFound", "InsufficientFunds", "AccountFrozen", "AlreadyDisputed",
               "NotDisputed", "TransactionNotFound", "DuplicateTransaction"}

\* ---- the data model ----
TransactionState(amount, disputed) == [amount |-> amount, disputed |-> disputed]

\* #[derive(Default)] of ClientState
ClientStateDefault == [available |-> 0, held |-> 0, frozen |-> FALSE]

total(client) == client.available + client.held

EmptyMap == [k \in {} |-> 0]

\* HashMap::insert
Insert(map, key, value) == [k \in DOMAIN map \cup {key} |-> IF k = key THEN value ELSE map[k]]

\* HashMap::entry(key).or_default(): the map after the call
OrDefault(map, key) == IF key \in DOMAIN map THEN map ELSE Insert(map, key, ClientStateDefault)

\* what a call hands back: its Result and the store it leaves
Outcome(res, cl, th) == [result |-> res, clients |-> cl, transaction_history |-> th]

ensure_transaction_uniqe_swapped(th, transaction_id, client_id) ==
  IF <<transaction_id, client_id>> \in DOMAIN th
  THEN DuplicateTransaction(client_id, transaction_id)
  ELSE Ok

ensure_transaction_uniqe(th, transaction_id, client_id) ==
  IF <<client_id, transaction_id>> \in DOMAIN th
  THEN DuplicateTransaction(client_id, transaction_id)
  ELSE Ok

\* ---- deposit ----

\* variant: the frozen check is left out
deposit_no_frozen_check(cl, th, transaction_id, client_id, amount) ==
  LET unique == ensure_transaction_uniqe(th, transaction_id, client_id) IN
  IF unique.kind # "Ok" THEN Outcome(unique, cl, th)
  ELSE LET cl1 == OrDefault(cl, client_id) IN
       Outcome(Ok,
               [cl1 EXCEPT ![client_id].available = @ + amount],
               Insert(th, <<client_id, transaction_id>>, TransactionState(amount, FALSE)))

\* variant: the frozen check comes before the uniqueness check
deposit_frozen_first(cl, th, transaction_id, client_id, amount) ==
  LET cl1 == OrDefault(cl, client_id)
      unique == ensure_transaction_uniqe(th, transaction_id, client_id)
  IN IF cl1[client_id].frozen THEN Outcome(AccountFrozen(client_id), cl1, th)
     ELSE IF unique.kind # "Ok" THEN Outcome(unique, cl, th)
     ELSE Outcome(Ok,
                  [cl1 EXCEPT ![client_id].available = @ + amount],
                  Insert(th, <<client_id, transaction_id>>, TransactionState(amount, FALSE)))

\* variant: available is assigned the amount instead of increased by it
deposit_assign(cl, th, transaction_id, client_id, amount) ==
  LET unique == ensure_transaction_uniqe(th, transaction_id, client_id) IN
  IF unique.kind # "Ok" THEN Outcome(unique, cl, th)
  ELSE LET cl1 == OrDefault(cl, client_id) IN
       IF cl1[client_id].frozen THEN Outcome(AccountFrozen(client_id), cl1, th)
       ELSE Outcome(Ok,
                    [cl1 EXCEPT ![client_id].available = amount],
                    Insert(th, <<client_id, transaction_id>>, TransactionState(amount, FALSE)))

\* variant: the account is inserted anew on every deposit instead of or_default
deposit_fresh_entry(cl, th, transaction_id, client_id, amount) ==
  LET unique == ensure_transaction_uniqe(th, transaction_id, client_id) IN
  IF unique.kind # "Ok" THEN Outcome(unique, cl, th)
  ELSE IF client_id \in DOMAIN cl /\ cl[client_id].frozen
       THEN Outcome(AccountFrozen(client_id), cl, th)
       ELSE LET cl1 == Insert(cl, client_id, ClientStateDefault) IN
            Outcome(Ok,
                    [cl1 EXCEPT ![client_id].available = @ + amount],
                    Insert(th, <<client_id, transaction_id>>, TransactionState(amount, FALSE)))

deposit(cl, th, transaction_id, client_id, amount) ==
  LET unique == ensure_transaction_uniqe(th, transaction_id, client_id) IN
  IF unique.kind # "Ok" THEN Outcome(unique, cl, th)
  ELSE LET cl1 == OrDefault(cl, client_id) IN   \* the entry exists from here on
       IF cl1[client_id].frozen THEN Outcome(AccountFrozen(client_id), cl1, th)
       ELSE Outcome(Ok,
                    [cl1 EXCEPT ![client_id].available = @ + amount],
                    Insert(th, <<client_id, transaction_id>>, TransactionState(amount, FALSE)))

\* ---- withdrawal ----

\* the part of withdrawal after the account was looked up
\* variant: the withdrawal is recorded with the amount as given, not negated
withdrawal_checked_unsigned(cl, th, transaction_id, client_id, amount) ==
  IF cl[client_id].frozen THEN Outcome(AccountFrozen(client_id), cl, th)
  ELSE IF cl[client_id].available < amount
       THEN Outcome(InsufficientFunds(client_id, transaction_id,
                                      cl[client_id].available, amount), cl, th)
       ELSE Outcome(Ok,
                    [cl EXCEPT ![client_id].available = @ - amount],
                    Insert(th, <<client_id, transaction_id>>, TransactionState(amount, FALSE)))

withdrawal_checked(cl, th, transaction_id, client_id, amount) ==
  IF cl[client_id].frozen THEN Outcome(AccountFrozen(client_id), cl, th)
  ELSE IF cl[client_id].available < amount
       THEN Outcome(InsufficientFunds(client_id, transaction_id,
                                      cl[client_id].available, amount), cl, th)
       ELSE Outcome(Ok,
                    [cl EXCEPT ![client_id].available = @ - amount],
                    Insert(th, <<client_id, transaction_id>>, TransactionState(-amount, FALSE)))

\* variant: the account is looked up with entry().or_default() as in deposit
withdrawal_or_default(cl, th, transaction_id, client_id, amount) ==
  LET unique == ensure_transaction_uniqe(th, transaction_id, client_id) IN
  IF unique.kind # "Ok" THEN Outcome(unique, cl, th)
  ELSE withdrawal_checked(OrDefault(cl, client_id), th, transaction_id, client_id, amount)

\* variant: the funds check is `<=` instead of `<`
withdrawal_le(cl, th, transaction_id, client_id, amount) ==
  LET unique == ensure_transaction_uniqe(th, transaction_id, client_id) IN
  IF unique.kind # "Ok" THEN Outcome(unique, cl, th)
  ELSE IF client_id \notin DOMAIN cl THEN Outcome(ClientNotFound(client_id), cl, th)
  ELSE IF cl[client_id].frozen THEN Outcome(AccountFrozen(client_id), cl, th)
  ELSE IF cl[client_id].available <= amount
       THEN Outcome(InsufficientFunds(client_id, transaction_id,
                                      cl[client_id].available, amount), cl, th)
       ELSE Outcome(Ok,
                    [cl EXCEPT ![client_id].available = @ - amount],
                    Insert(th, <<client_id, transaction_id>>, TransactionState(-amount, FALSE)))

withdrawal(cl, th, transaction_id, client_id, amount) ==
  LET unique == ensure_transaction_uniqe(th, transaction_id, client_id) IN
  IF unique.kind # "Ok" THEN Outcome(unique, cl, th)
  ELSE IF client_id \notin DOMAIN cl THEN Outcome(ClientNotFound(client_id), cl, th)
  ELSE withdrawal_checked(cl, th, transaction_id, client_id, amount)

\* ---- dispute ----

\* variant: the amount is added to available instead of subtracted
dispute_add(cl, th, transaction_id, client_id) ==
  LET key == <<client_id, transaction_id>> IN
  IF client_id \notin DOMAIN cl THEN Outcome(ClientNotFound(client_id), cl, th)
  ELSE IF key \notin DOMAIN th
       THEN Outcome(TransactionNotFound(client_id, transaction_id), cl, th)
  ELSE IF th[key].disputed
       THEN Outcome(AlreadyDisputed(client_id, transaction_id), cl, th)
  ELSE Outcome(Ok,
               [cl EXCEPT ![client_id].available = @ + th[key].amount,
                          ![client_id].held = @ + th[key].amount],
               [th EXCEPT ![key].disputed = TRUE])

\* variant: the record is looked up by transaction id alone
dispute_by_tx(cl, th, transaction_id, client_id) ==
  LET keys == {k \in DOMAIN th : k[2] = transaction_id} IN
  IF client_id \notin DOMAIN cl THEN Outcome(ClientNotFound(client_id), cl, th)
  ELSE IF keys = {}
       THEN Outcome(TransactionNotFound(client_id, transaction_id), cl, th)
  ELSE LET key == CHOOSE k \in keys : \A j \in keys : k[1] <= j[1] IN
       IF th[key].disputed
       THEN Outcome(AlreadyDisputed(client_id, transaction_id), cl, th)
       ELSE Outcome(Ok,
                    [cl EXCEPT ![client_id].available = @ - th[key].amount,
                               ![client_id].held = @ + th[key].amount],
                    [th EXCEPT ![key].disputed = TRUE])

\* variant: the transaction is looked up before the account
dispute_tx_first(cl, th, transaction_id, client_id) ==
  LET key == <<client_id, transaction_id>> IN
  IF key \notin DOMAIN th
  THEN Outcome(TransactionNotFound(client_id, transaction_id), cl, th)
  ELSE IF client_id \notin DOMAIN cl THEN Outcome(ClientNotFound(client_id), cl, th)
  ELSE IF th[key].disputed
       THEN Outcome(AlreadyDisputed(client_id, transaction_id), cl, th)
  ELSE Outcome(Ok,
               [cl EXCEPT ![client_id].available = @ - th[key].amount,
                          ![client_id].held = @ + th[key].amount],
               [th EXCEPT ![key].disputed = TRUE])

\* variant: dispute refuses a frozen account, as deposit and withdrawal do
dispute_frozen_gate(cl, th, transaction_id, client_id) ==
  LET key == <<client_id, transaction_id>> IN
  IF client_id \notin DOMAIN cl THEN Outcome(ClientNotFound(client_id), cl, th)
  ELSE IF cl[client_id].frozen THEN Outcome(AccountFrozen(client_id), cl, th)
  ELSE IF key \notin DOMAIN th
       THEN Outcome(TransactionNotFound(client_id, transaction_id), cl, th)
  ELSE IF th[key].disputed
       THEN Outcome(AlreadyDisputed(client_id, transaction_id), cl, th)
  ELSE Outcome(Ok,
               [cl EXCEPT ![client_id].available = @ - th[key].amount,
                          ![client_id].held = @ + th[key].amount],
               [th EXCEPT ![key].disputed = TRUE])

\* variant: dispute moves the size of the amount, whatever its sign
dispute_unsigned(cl, th, transaction_id, client_id) ==
  LET key == <<client_id, transaction_id>>
      size(a) == IF a < 0 THEN -a ELSE a
  IN
  IF client_id \notin DOMAIN cl THEN Outcome(ClientNotFound(client_id), cl, th)
  ELSE IF key \notin DOMAIN th
       THEN Outcome(TransactionNotFound(client_id, transaction_id), cl, th)
  ELSE IF th[key].disputed
       THEN Outcome(AlreadyDisputed(client_id, transaction_id), cl, th)
  ELSE Outcome(Ok,
               [cl EXCEPT ![client_id].available = @ - size(th[key].amount),
                          ![client_id].held = @ + size(th[key].amount)],
               [th EXCEPT ![key].disputed = TRUE])

dispute(cl, th, transaction_id, client_id) ==
  LET key == <<client_id, transaction_id>> IN
  IF client_id \notin DOMAIN cl THEN Outcome(ClientNotFound(client_id), cl, th)
  ELSE IF key \notin DOMAIN th
       THEN Outcome(TransactionNotFound(client_id, transaction_id), cl, th)
  ELSE IF th[key].disputed
       THEN Outcome(AlreadyDisputed(client_id, transaction_id), cl, th)
  ELSE Outcome(Ok,
               [cl EXCEPT ![client_id].available = @ - th[key].amount,
                          ![client_id].held = @ + th[key].amount],
               [th EXCEPT ![key].disputed = TRUE])

\* ---- resolve ----

\* variant: the disputed flag is not cleared
resolve_keeps_flag(cl, th, transaction_id, client_id) ==
  LET key == <<client_id, transaction_id>> IN
  IF client_id \notin DOMAIN cl THEN Outcome(ClientNotFound(client_id), cl, th)
  ELSE IF key \notin DOMAIN th
       THEN Outcome(TransactionNotFound(client_id, transaction_id), cl, th)
  ELSE IF ~th[key].disputed
       THEN Outcome(NotDisputed(client_id, transaction_id), cl, th)
  ELSE Outcome(Ok,
               [cl EXCEPT ![client_id].available = @ + th[key].amount,
                          ![client_id].held = @ - th[key].amount],
               th)

\* variant: resolving a dispute also lifts the freeze
resolve_unfreezes(cl, th, transaction_id, client_id) ==
  LET key == <<client_id, transaction_id>> IN
  IF client_id \notin DOMAIN cl THEN Outcome(ClientNotFound(client_id), cl, th)
  ELSE IF key \notin DOMAIN th
       THEN Outcome(TransactionNotFound(client_id, transaction_id), cl, th)
  ELSE IF ~th[key].disputed
       THEN Outcome(NotDisputed(client_id, transaction_id), cl, th)
  ELSE Outcome(Ok,
               [cl EXCEPT ![client_id].available = @ + th[key].amount,
                          ![client_id].held = @ - th[key].amount,
                          ![client_id].frozen = FALSE],
               [th EXCEPT ![key].disputed = FALSE])

\* variant: the amount is handed back to available but stays in held
resolve_keeps_held(cl, th, transaction_id, client_id) ==
  LET key == <<client_id, transaction_id>> IN
  IF client_id \notin DOMAIN cl THEN Outcome(ClientNotFound(client_id), cl, th)
  ELSE IF key \notin DOMAIN th
       THEN Outcome(TransactionNotFound(client_id, transaction_id), cl, th)
  ELSE IF ~th[key].disputed
       THEN Outcome(NotDisputed(client_id, transaction_id), cl, th)
  ELSE Outcome(Ok,
               [cl EXCEPT ![client_id].available = @ + th[key].amount],
               [th EXCEPT ![key].disputed = FALSE])

resolve(cl, th, transaction_id, client_id) ==
  LET key == <<client_id, transaction_id>> IN
  IF client_id \notin DOMAIN cl THEN Outcome(ClientNotFound(client_id), cl, th)
  ELSE IF key \notin DOMAIN th
       THEN Outcome(TransactionNotFound(client_id, transaction_id), cl, th)
  ELSE IF ~th[key].disputed
       THEN Outcome(NotDisputed(client_id, transaction_id), cl, th)
  ELSE Outcome(Ok,
               [cl EXCEPT ![client_id].available = @ + th[key].amount,
                          ![client_id].held = @ - th[key].amount],
               [th EXCEPT ![key].disputed = FALSE])

\* ---- chargeback ----

\* variant: the held amount is handed back to available, as resolve does
chargeback_found_refund(cl, th, transaction_id, client_id) ==
  LET key == <<client_id, transaction_id>> IN
  IF key \notin DOMAIN th
  THEN Outcome(TransactionNotFound(client_id, transaction_id), cl, th)
  ELSE IF ~th[key].disputed
       THEN Outcome(NotDisputed(client_id, transaction_id), cl, th)
  ELSE Outcome(Ok,
               [cl EXCEPT ![client_id].available = @ + th[key].amount,
                          ![client_id].held = @ - th[key].amount,
                          ![client_id].frozen = TRUE],
               th)

\* variant: the charged-back record is dropped from the history
chargeback_found_removes(cl, th, transaction_id, client_id) ==
  LET key == <<client_id, transaction_id>> IN
  IF key \notin DOMAIN th
  THEN Outcome(TransactionNotFound(client_id, transaction_id), cl, th)
  ELSE IF ~th[key].disputed
       THEN Outcome(NotDisputed(client_id, transaction_id), cl, th)
  ELSE Outcome(Ok,
               [cl EXCEPT ![client_id].held = @ - th[key].amount,
                          ![client_id].frozen = TRUE],
               [k \in DOMAIN th \ {key} |-> th[k]])

\* variant: a successful chargeback closes the dispute by clearing the flag
chargeback_found_clears_flag(cl, th, transaction_id, client_id) ==
  LET key == <<client_id, transaction_id>> IN
  IF key \notin DOMAIN th
  THEN Outcome(TransactionNotFound(client_id, transaction_id), cl, th)
  ELSE IF ~th[key].disputed
       THEN Outcome(NotDisputed(client_id, transaction_id), cl, th)
  ELSE Outcome(Ok,
               [cl EXCEPT ![client_id].held = @ - th[key].amount,
                          ![client_id].frozen = TRUE],
               [th EXCEPT ![key].disputed = FALSE])

\* variant: the size of the amount is taken out of held, whatever its sign
chargeback_found_unsigned(cl, th, transaction_id, client_id) ==
  LET key == <<client_id, transaction_id>>
      size(a) == IF a < 0 THEN -a ELSE a
  IN
  IF key \notin DOMAIN th
  THEN Outcome(TransactionNotFound(client_id, transaction_id), cl, th)
  ELSE IF ~th[key].disputed
       THEN Outcome(NotDisputed(client_id, transaction_id), cl, th)
  ELSE Outcome(Ok,
               [cl EXCEPT ![client_id].held = @ - size(th[key].amount),
                          ![client_id].frozen = TRUE],
               th)

\* the part of chargeback after the account was looked up
chargeback_found(cl, th, transaction_id, client_id) ==
  LET key == <<client_id, transaction_id>> IN
  IF key \notin DOMAIN th
  THEN Outcome(TransactionNotFound(client_id, transaction_id), cl, th)
  ELSE IF ~th[key].disputed
       THEN Outcome(NotDisputed(client_id, transaction_id), cl, th)
  ELSE Outcome(Ok,
               [cl EXCEPT ![client_id].held = @ - th[key].amount,
                          ![client_id].frozen = TRUE],
               th)

\* variant: the account is looked up with entry().or_default()
chargeback_or_default(cl, th, transaction_id, client_id) ==
  chargeback_found(OrDefault(cl, client_id), th, transaction_id, client_id)

chargeback(cl, th, transaction_id, client_id) ==
  IF client_id \notin DOMAIN cl THEN Outcome(ClientNotFound(client_id), cl, th)
  ELSE chargeback_found(cl, th, transaction_id, client_id)

\* ---- the events of a run ----

Event(kind, tx, client, amount) == [kind |-> kind, tx |-> tx, client |-> client, amount |-> amount]
NoEvent == Event("none", 0, 0, 0)
NoResult == [kind |-> "none"]
Store(cl, th) == [clients |-> cl, transaction_history |-> th]

\* ---- the dispatcher ----

\* variant: the Resolve arm calls chargeback
process_transaction_event_misrouted(cl, th, transaction) ==
  CASE transaction.kind = "deposit" ->
         deposit(cl, th, transaction.tx, transaction.client, transaction.amount)
    [] transaction.kind = "withdrawal" ->
         withdrawal(cl, th, transaction.tx, transaction.client, transaction.amount)
    [] transaction.kind = "dispute" -> dispute(cl, th, transaction.tx, transaction.client)
    [] transaction.kind = "resolve" -> chargeback(cl, th, transaction.tx, transaction.client)
    [] transaction.kind = "chargeback" -> chargeback(cl, th, transaction.tx, transaction.client)

process_transaction_event(cl, th, transaction) ==
  CASE transaction.kind = "deposit" ->
         deposit(cl, th, transaction.tx, transaction.client, transaction.amount)
    [] transaction.kind = "withdrawal" ->
         withdrawal(cl, th, transaction.tx, transaction.client, transaction.amount)
    [] transaction.kind = "dispute" -> dispute(cl, th, transaction.tx, transaction.client)
    [] transaction.kind = "resolve" -> resolve(cl, th, transaction.tx, transaction.client)
    [] transaction.kind = "chargeback" -> chargeback(cl, th, transaction.tx, transaction.client)

\* ---- the rows of the input (csv.rs) ----

\* Option<Decimal>: None is {}, Some(a) is {a}
None == {}
Some(a) == {a}

TransactionRow(transaction_type, client, tx, amount) ==
  [transaction_type |-> transaction_type, client |-> client, tx |-> tx, amount |-> amount]
NoRow == TransactionRow("", 0, 0, None)

\* the five labels try_from knows, and one it does not
RowTypes == {"deposit", "withdrawal", "dispute", "resolve", "chargeback", "refund"}
Rows ==
  {TransactionRow(t, c, x, a) :
     t \in RowTypes, c \in ClientIds, x \in TransactionIds,
     a \in {None} \cup {Some(n) : n \in Amounts}}

Decoded(ev) == [ok |-> TRUE, event |-> ev]
DecodeError(e) == [ok |-> FALSE, error |-> e]
TheAmount(r) == CHOOSE a \in r.amount : TRUE

\* variant: a missing amount is read as zero (unwrap_or_default)
try_from_default_amount(r) ==
  LET amount == IF r.amount = None THEN 0 ELSE TheAmount(r) IN
  CASE r.transaction_type = "deposit" -> Decoded(Event("deposit", r.tx, r.client, amount))
    [] r.transaction_type = "withdrawal" -> Decoded(Event("withdrawal", r.tx, r.client, amount))
    [] r.transaction_type = "dispute" -> Decoded(Event("dispute", r.tx, r.client, 0))
    [] r.transaction_type = "resolve" -> Decoded(Event("resolve", r.tx, r.client, 0))
    [] r.transaction_type = "chargeback" -> Decoded(Event("chargeback", r.tx, r.client, 0))
    [] OTHER -> DecodeError("UnknownType")

\* impl TryFrom<TransactionRow> for TransactionEvent
try_from(r) ==
  CASE r.transaction_type = "deposit" ->
         IF r.amount = None THEN DecodeError("MissingAmount")
         ELSE Decoded(Event("deposit", r.tx, r.client, TheAmount(r)))
    [] r.transaction_type = "withdrawal" ->
         IF r.amount = None THEN DecodeError("MissingAmount")
         ELSE Decoded(Event("withdrawal", r.tx, r.client, TheAmount(r)))
    [] r.transaction_type = "dispute" -> Decoded(Event("dispute", r.tx, r.client, 0))
    [] r.transaction_type = "resolve" -> Decoded(Event("resolve", r.tx, r.client, 0))
    [] r.transaction_type = "chargeback" -> Decoded(Event("chargeback", r.tx, r.client, 0))
    [] OTHER -> DecodeError("UnknownType")

\* variant: the ledger error is propagated with `?`
on_ledger_result_propagates(res) == IF res.kind = "Ok" THEN "running" ELSE res.kind

\* csv_processor after process_transaction_event returned: an Err is logged
\* and the loop goes on
on_ledger_result(res) == "running"

\* ---- the snapshot ----

ClientInformation(id, available, held, tot, frozen) ==
  [id |-> id, available |-> available, held |-> held, total |-> tot, frozen |-> frozen]

\* variant: total carries available only
clients_iter_total_available(cl) ==
  {ClientInformation(id, cl[id].available, cl[id].held, cl[id].available, cl[id].frozen) :
     id \in DOMAIN cl}

\* the items of clients_iter(), in no order
clients_iter(cl) ==
  {ClientInformation(id, cl[id].available, cl[id].held, total(cl[id]), cl[id].frozen) :
     id \in DOMAIN cl}

\* amounts of the model are whole numbers of 10^-ModelPlaces
ModelPlaces == DECIMAL_PLACES
RECURSIVE Pow10(_)
Pow10(n) == IF n <= 0 THEN 1 ELSE 10 * Pow10(n - 1)

\* Decimal::round_dp: to dp places, midpoint to the even neighbour
round_dp(x, dp) ==
  IF dp >= ModelPlaces THEN x
  ELSE LET q == Pow10(ModelPlaces - dp)
           mag == IF x < 0 THEN 0 - x ELSE x
           lo == (mag \div q) * q
           r == mag - lo
           up == IF 2 * r > q \/ (2 * r = q /\ (mag \div q) % 2 = 1) THEN lo + q ELSE lo
       IN IF x < 0 THEN 0 - up ELSE up

ClientRow(client, available, held, tot, locked) ==
  [client |-> client, available |-> available, held |-> held, total |-> tot, locked |-> locked]

\* the rows the second loop of csv_processor writes
written_rows(cl) ==
  {ClientRow(client.id,
             round_dp(client.available, DECIMAL_PLACES),
             round_dp(client.held, DECIMAL_PLACES),
             round_dp(client.total, DECIMAL_PLACES),
             client.frozen) : client \in clients_iter(cl)}

\* A run is "deposits only" while every call so far was a deposit, all to one
\* client, each with a transaction id not used before in the run.
NotDepositRun == [pure |-> FALSE, client |-> 0, txs |-> {}, sum |-> 0]
DepositRunNext(run, ev) ==
  IF /\ run.pure
     /\ ev.kind = "deposit"
     /\ run.client \in {0, ev.client}
     /\ ev.tx \notin run.txs
  THEN [pure |-> TRUE, client |-> ev.client, txs |-> run.txs \cup {ev.tx},
        sum |-> run.sum + ev.amount]
  ELSE NotDepositRun

\* a run of dispute and resolve calls on one key (client, tx): it starts with
\* a successful dispute, remembers the balances that dispute was made on and
\* counts the successful resolves; any other call ends it
NoDisputeRun ==
  [active |-> FALSE, client |-> 0, tx |-> 0, available |-> 0, held |-> 0,
   cycles |-> 0]
DisputeRunNext(run, ev, res, cl) ==
  IF /\ run.active
     /\ ev.kind \in {"dispute", "resolve"}
     /\ ev.client = run.client
     /\ ev.tx = run.tx
  THEN [run EXCEPT !.cycles = IF ev.kind = "resolve" /\ res = Ok THEN @ + 1 ELSE @]
  ELSE IF ev.kind = "dispute" /\ res = Ok
       THEN [active |-> TRUE, client |-> ev.client, tx |-> ev.tx,
             available |-> cl[ev.client].available, held |-> cl[ev.client].held,
             cycles |-> 0]
  ELSE NoDisputeRun

\* one call on the store: the store and the record of the call
Step(ev, out) ==
  /\ clients' = out.clients
  /\ transaction_history' = out.transaction_history
  /\ event' = ev
  /\ result' = out.result
  /\ before' = Store(clients, transaction_history)
  /\ prevEvent' = event
  /\ prevResult' = result
  /\ before2' = before
  /\ depositRun' = DepositRunNext(depositRun, ev)
  /\ chargebacked' = IF ev.kind = "chargeback" /\ out.result = Ok
                     THEN chargebacked \cup {<<ev.client, ev.tx>>}
                     ELSE chargebacked
  /\ disputeRun' = DisputeRunNext(disputeRun, ev, out.result, clients)
  /\ nEvents' = nEvents + 1

Init ==
  /\ clients = EmptyMap
  /\ transaction_history = EmptyMap
  /\ event = NoEvent
  /\ result = NoResult
  /\ before = Store(EmptyMap, EmptyMap)
  /\ prevEvent = NoEvent
  /\ prevResult = NoResult
  /\ before2 = Store(EmptyMap, EmptyMap)
  /\ depositRun = [pure |-> TRUE, client |-> 0, txs |-> {}, sum |-> 0]
  /\ chargebacked = {}
  /\ disputeRun = NoDisputeRun
  /\ nEvents = 0
  /\ row = NoRow
  /\ rowsRead = 0
  /\ runResult = "running"
  /\ output = {}
  /\ summaries = {}
  /\ prevSummaries = {}

Deposit ==
  \E tx \in TransactionIds, client \in ClientIds, amount \in Amounts :
    /\ nEvents < MaxEvents
    /\ Step(Event("deposit", tx, client, amount),
            process_transaction_event(clients, transaction_history,
                                      Event("deposit", tx, client, amount)))
    /\ UNCHANGED <<runVars, snapVars>>

Withdrawal ==
  \E tx \in TransactionIds, client \in ClientIds, amount \in Amounts :
    /\ nEvents < MaxEvents
    /\ Step(Event("withdrawal", tx, client, amount),
            process_transaction_event(clients, transaction_history,
                                      Event("withdrawal", tx, client, amount)))
    /\ UNCHANGED <<runVars, snapVars>>

Dispute ==
  \E tx \in TransactionIds, client \in ClientIds :
    /\ nEvents < MaxEvents
    /\ Step(Event("dispute", tx, client, 0),
            process_transaction_event(clients, transaction_history,
                                      Event("dispute", tx, client, 0)))
    /\ UNCHANGED <<runVars, snapVars>>

Resolve ==
  \E tx \in TransactionIds, client \in ClientIds :
    /\ nEvents < MaxEvents
    /\ Step(Event("resolve", tx, client, 0),
            process_transaction_event(clients, transaction_history,
                                      Event("resolve", tx, client, 0)))
    /\ UNCHANGED <<runVars, snapVars>>

Chargeback ==
  \E tx \in TransactionIds, client \in ClientIds :
    /\ nEvents < MaxEvents
    /\ Step(Event("chargeback", tx, client, 0),
            process_transaction_event(clients, transaction_history,
                                      Event("chargeback", tx, client, 0)))
    /\ UNCHANGED <<runVars, snapVars>>

Next == Deposit \/ Withdrawal \/ Dispute \/ Resolve \/ Chargeback

Spec == Init /\ [][Next]_vars

\* A run of deposits only, to one client, each with a transaction id that the
\* run has not used yet (csv_processor feeding Deposit rows only).
DepositFresh ==
  \E tx \in 1..MaxRunTx, client \in ClientIds, amount \in Amounts :
    /\ depositRun.pure
    /\ depositRun.client \in {0, client}
    /\ tx \notin depositRun.txs
    /\ Step(Event("deposit", tx, client, amount),
            process_transaction_event(clients, transaction_history,
                                      Event("deposit", tx, client, amount)))
    /\ UNCHANGED <<runVars, snapVars>>

NextDeposits == DepositFresh

SpecDeposits == Init /\ [][NextDeposits]_vars

\* ---- csv_processor: a whole run ----

ledgerVars == <<clients, transaction_history, event, result, before,
                prevEvent, prevResult, before2, depositRun, chargebacked,
                disputeRun, nEvents>>

\* a row is read, decodes, and is applied to the store
RowApplied ==
  \E r \in Rows :
    /\ runResult = "running"
    /\ rowsRead < MaxRows
    /\ try_from(r).ok
    /\ LET out == process_transaction_event(clients, transaction_history, try_from(r).event)
       IN /\ Step(try_from(r).event, out)
          /\ runResult' = on_ledger_result(out.result)
    /\ row' = r
    /\ rowsRead' = rowsRead + 1
    /\ UNCHANGED <<output, snapVars>>

\* a row is read and does not decode: `?` returns the error
RowRejected ==
  \E r \in Rows :
    /\ runResult = "running"
    /\ rowsRead < MaxRows
    /\ ~try_from(r).ok
    /\ runResult' = try_from(r).error
    /\ row' = r
    /\ rowsRead' = rowsRead + 1
    /\ UNCHANGED <<ledgerVars, output, snapVars>>

\* the input is exhausted: the client rows are written and the run returns Ok
EndOfInput ==
  /\ runResult = "running"
  /\ output' = written_rows(clients)
  /\ summaries' = clients_iter(clients)
  /\ prevSummaries' = summaries
  /\ runResult' = "Ok"
  /\ UNCHANGED <<ledgerVars, row, rowsRead>>

NextRun == RowApplied \/ RowRejected \/ EndOfInput

SpecRun == Init /\ [][NextRun]_vars

\* ---- the store with clients_iter() called at any time ----

Events ==
  {Event(k, tx, client, amount) :
     k \in {"deposit", "withdrawal"}, tx \in TransactionIds, client \in ClientIds,
     amount \in Amounts}
  \cup {Event(k, tx, client, 0) :
          k \in {"dispute", "resolve", "chargeback"}, tx \in TransactionIds,
          client \in ClientIds}

LedgerEvent ==
  \E ev \in Events :
    /\ nEvents < MaxSnapEvents
    /\ Step(ev, process_transaction_event(clients, transaction_history, ev))
    /\ UNCHANGED <<runVars, snapVars>>

\* clients_iter(&self): the store is only read
Snapshot ==
  /\ nEvents < MaxSnapEvents
  /\ Step(Event("clients_iter", 0, 0, 0), Outcome(NoResult, clients, transaction_history))
  /\ summaries' = clients_iter(clients)
  /\ prevSummaries' = summaries
  /\ UNCHANGED runVars

NextSnapshot == LedgerEvent \/ Snapshot

SpecSnapshot == Init /\ [][NextSnapshot]_vars

\* ---- dispute/resolve cycles: a few deposits and withdrawals, then only
\* ---- dispute and resolve calls ----

CycleSetup ==
  \E ev \in Events :
    /\ ev.kind \in {"deposit", "withdrawal"}
    /\ nEvents < MaxSetupEvents
    /\ Step(ev, process_transaction_event(clients, transaction_history, ev))
    /\ UNCHANGED <<runVars, snapVars>>

CycleDispute ==
  \E tx \in TransactionIds, client \in ClientIds :
    /\ nEvents < MaxCycleEvents
    /\ Step(Event("dispute", tx, client, 0),
            process_transaction_event(clients, transaction_history,
                                      Event("dispute", tx, client, 0)))
    /\ UNCHANGED <<runVars, snapVars>>

CycleResolve ==
  \E tx \in TransactionIds, client \in ClientIds :
    /\ nEvents < MaxCycleEvents
    /\ Step(Event("resolve", tx, client, 0),
            process_transaction_event(clients, transaction_history,
                                      Event("resolve", tx, client, 0)))
    /\ UNCHANGED <<runVars, snapVars>>

NextCycles == CycleSetup \/ CycleDispute \/ CycleResolve

SpecCycles == Init /\ [][NextCycles]_vars

\* ---- properties ----

evKey == <<event.client, event.tx>>
prevKey == <<prevEvent.client, prevEvent.tx>>
StoreUnchanged == clients = before.clients /\ transaction_history = before.transaction_history
\* the last call was a deposit or a withdrawal for an account that was frozen
OnFrozen ==
  /\ event.kind \in {"deposit", "withdrawal"}
  /\ event.client \in DOMAIN before.clients
  /\ before.clients[event.client].frozen

\* C1: a call of deposit, withdrawal, dispute, resolve or chargeback that
\* returns one of the 7 errors leaves the whole store (accounts and recorded
\* transactions) exactly as it was before the call.
C1_FailedCallLeavesStore ==
  result.kind \in ErrorKinds => StoreUnchanged

\* a deposit was rejected after the account entry had been looked up
C1_Witness ==
  /\ event.kind = "deposit"
  /\ result.kind = "AccountFrozen"
  /\ StoreUnchanged

\* C2: while a client's frozen flag is true no deposit and no withdrawal for
\* that client succeeds, for any transaction id and amount, and the call
\* leaves the client's available as it was.
C2_FrozenBlocksDepositWithdrawal ==
  /\ OnFrozen =>
       /\ result.kind # "Ok"
       /\ clients[event.client].available = before.clients[event.client].available
  /\ \A c \in DOMAIN clients : clients[c].frozen =>
       \A tx \in TransactionIds, a \in Amounts :
         /\ deposit(clients, transaction_history, tx, c, a).result.kind # "Ok"
         /\ withdrawal(clients, transaction_history, tx, c, a).result.kind # "Ok"

\* a deposit with an unused transaction id and a covered withdrawal were each
\* attempted on a frozen account
C2_Witness ==
  /\ OnFrozen
  /\ evKey \notin DOMAIN before.transaction_history
  /\ event.amount > 0
  /\ event.amount <= before.clients[event.client].available

\* C3 as stated: on a frozen account every deposit and withdrawal attempt
\* returns AccountFrozen, also with a transaction id already recorded for the
\* client.
C3_AlwaysAccountFrozen ==
  OnFrozen => result = AccountFrozen(event.client)

\* C3 amended: on a frozen account a deposit or withdrawal attempt returns
\* AccountFrozen when its (client, tx) is not recorded, whatever the amount,
\* and DuplicateTransaction when it is recorded.
C3_FrozenOrDuplicate ==
  OnFrozen =>
    result = IF evKey \in DOMAIN before.transaction_history
             THEN DuplicateTransaction(event.client, event.tx)
             ELSE AccountFrozen(event.client)

\* a deposit on a frozen account reused a recorded transaction id
C3_Witness ==
  /\ OnFrozen
  /\ event.kind = "deposit"
  /\ evKey \in DOMAIN before.transaction_history
  /\ result.kind = "DuplicateTransaction"

\* C4: a deposit or withdrawal whose (client, tx) is already recorded returns
\* DuplicateTransaction, whatever the kind and amount of the recorded
\* transaction, and leaves balances and the record as they were.
C4_DuplicateRejected ==
  (event.kind \in {"deposit", "withdrawal"} /\ evKey \in DOMAIN before.transaction_history) =>
    /\ result = DuplicateTransaction(event.client, event.tx)
    /\ StoreUnchanged

\* a withdrawal reused the key of a recorded deposit, with another amount
C4_Witness ==
  /\ event.kind = "withdrawal"
  /\ evKey \in DOMAIN before.transaction_history
  /\ before.transaction_history[evKey].amount > 0
  /\ event.amount # before.transaction_history[evKey].amount
  /\ event.amount <= before.clients[event.client].available
  /\ result.kind = "DuplicateTransaction"

\* C5: withdrawal returns the first failing check of DuplicateTransaction,
\* ClientNotFound, AccountFrozen, InsufficientFunds (carrying the requested
\* amount and the current available); otherwise, also when amount equals
\* available, it succeeds, records -amount undisputed, decreases available by
\* amount and leaves held and frozen, so available is >= 0 afterwards.
C5_WithdrawalReference ==
  event.kind = "withdrawal" =>
    LET c == event.client
        a == event.amount
        cl0 == before.clients
        th0 == before.transaction_history
    IN IF evKey \in DOMAIN th0 THEN result = DuplicateTransaction(c, event.tx)
       ELSE IF c \notin DOMAIN cl0 THEN result = ClientNotFound(c)
       ELSE IF cl0[c].frozen THEN result = AccountFrozen(c)
       ELSE IF cl0[c].available < a
            THEN result = InsufficientFunds(c, event.tx, cl0[c].available, a)
       ELSE /\ result = Ok
            /\ DOMAIN transaction_history = DOMAIN th0 \cup {evKey}
            /\ transaction_history[evKey] = [amount |-> 0 - a, disputed |-> FALSE]
            /\ \A k \in DOMAIN th0 : transaction_history[k] = th0[k]
            /\ DOMAIN clients = DOMAIN cl0
            /\ clients[c].available = cl0[c].available - a
            /\ clients[c].held = cl0[c].held
            /\ clients[c].frozen = cl0[c].frozen
            /\ clients[c].available >= 0
            /\ \A d \in DOMAIN cl0 \ {c} : clients[d] = cl0[d]

\* a withdrawal of exactly the available amount succeeded
C5_Witness ==
  /\ event.kind = "withdrawal"
  /\ result = Ok
  /\ event.amount > 0
  /\ event.amount = before.clients[event.client].available

\* C6: deposit returns DuplicateTransaction if (client, tx) is recorded, else
\* AccountFrozen if the client exists and is frozen; otherwise it succeeds,
\* creates the account if absent (0, 0, not frozen), records +amount
\* undisputed, increases available by amount and leaves held and frozen.
C6_DepositReference ==
  event.kind = "deposit" =>
    LET c == event.client
        a == event.amount
        cl0 == before.clients
        th0 == before.transaction_history
        old == IF c \in DOMAIN cl0 THEN cl0[c]
               ELSE [available |-> 0, held |-> 0, frozen |-> FALSE]
    IN IF evKey \in DOMAIN th0 THEN result = DuplicateTransaction(c, event.tx)
       ELSE IF c \in DOMAIN cl0 /\ cl0[c].frozen THEN result = AccountFrozen(c)
       ELSE /\ result = Ok
            /\ DOMAIN transaction_history = DOMAIN th0 \cup {evKey}
            /\ transaction_history[evKey] = [amount |-> a, disputed |-> FALSE]
            /\ \A k \in DOMAIN th0 : transaction_history[k] = th0[k]
            /\ DOMAIN clients = DOMAIN cl0 \cup {c}
            /\ clients[c].available = old.available + a
            /\ clients[c].held = old.held
            /\ clients[c].frozen = old.frozen
            /\ \A d \in DOMAIN cl0 \ {c} : clients[d] = cl0[d]

\* a deposit succeeded on an existing account that had a held amount
C6_Witness ==
  /\ event.kind = "deposit"
  /\ result = Ok
  /\ event.amount > 0
  /\ event.client \in DOMAIN before.clients
  /\ before.clients[event.client].held # 0

\* C7: in a run of deposits only, with distinct transaction ids and to one
\* client on an initially empty ledger, every deposit succeeds and the
\* client's available is the sum of the amounts, held = 0, frozen = false.
C7_DepositsSumUp ==
  (depositRun.pure /\ nEvents > 0) =>
    /\ result = Ok
    /\ DOMAIN clients = {depositRun.client}
    /\ clients[depositRun.client] =
         [available |-> depositRun.sum, held |-> 0, frozen |-> FALSE]

\* three deposits with distinct ids were made and add up
C7_Witness ==
  /\ depositRun.pure
  /\ Cardinality(depositRun.txs) >= 3
  /\ depositRun.sum >= 2
  /\ event.amount = 0

\* C8: an account appears only through a successful deposit for its client
\* and then holds exactly the deposited amount (0 held, not frozen); no
\* account ever disappears; withdrawal, dispute, resolve and chargeback for a
\* client without an account return ClientNotFound and create none.
C8_AccountLifecycle ==
  /\ DOMAIN before.clients \subseteq DOMAIN clients
  /\ \A c \in DOMAIN clients \ DOMAIN before.clients :
       /\ event.kind = "deposit"
       /\ event.client = c
       /\ result = Ok
       /\ clients[c] = [available |-> event.amount, held |-> 0, frozen |-> FALSE]
  /\ (event.kind \in {"withdrawal", "dispute", "resolve", "chargeback"}
        /\ event.client \notin DOMAIN before.clients) =>
       /\ result = ClientNotFound(event.client)
       /\ clients = before.clients

\* a withdrawal for a client without an account failed, and the deposit right
\* after it created the account
C8_Witness ==
  /\ prevEvent.kind = "withdrawal"
  /\ prevResult = ClientNotFound(prevEvent.client)
  /\ event.kind = "deposit"
  /\ event.client = prevEvent.client
  /\ event.amount > 0
  /\ result = Ok
  /\ event.client \notin DOMAIN before2.clients
  /\ clients[event.client].available = event.amount

\* C9: a successful dispute found the transaction recorded and undisputed,
\* sets its disputed flag, subtracts its signed amount from available and adds
\* it to held, and leaves total and frozen; a successful resolve leaves total.
C9_DisputeMovesFunds ==
  /\ (event.kind = "dispute" /\ result = Ok) =>
       LET c == event.client
           old == before.clients[c]
           tr == before.transaction_history[evKey]
       IN /\ ~tr.disputed
          /\ transaction_history[evKey] = [amount |-> tr.amount, disputed |-> TRUE]
          /\ clients[c].available = old.available - tr.amount
          /\ clients[c].held = old.held + tr.amount
          /\ total(clients[c]) = total(old)
          /\ clients[c].frozen = old.frozen
  /\ (event.kind = "resolve" /\ result = Ok) =>
       total(clients[event.client]) = total(before.clients[event.client])

\* a withdrawal of a non-zero amount was disputed successfully
C9_Witness ==
  /\ event.kind = "dispute"
  /\ result = Ok
  /\ before.transaction_history[evKey].amount < 0

\* C10: a successful dispute immediately followed by a successful resolve of
\* the same transaction restores the client's available and held to their
\* values before the dispute, leaves frozen, and the disputed flag is false.
C10_DisputeResolveRoundTrip ==
  (/\ prevEvent.kind = "dispute"
   /\ prevResult = Ok
   /\ event.kind = "resolve"
   /\ result = Ok
   /\ evKey = prevKey) =>
    /\ ~before2.transaction_history[evKey].disputed
    /\ clients[event.client] = before2.clients[event.client]
    /\ ~transaction_history[evKey].disputed
    /\ transaction_history[evKey].amount = before2.transaction_history[evKey].amount

\* a deposit of a non-zero amount was disputed and then resolved
C10_Witness ==
  /\ prevEvent.kind = "dispute"
  /\ prevResult = Ok
  /\ event.kind = "resolve"
  /\ result = Ok
  /\ evKey = prevKey
  /\ transaction_history[evKey].amount > 0
  /\ before.clients[event.client].held > 0

\* C11: a successful dispute immediately followed by a successful chargeback
\* of the same transaction freezes the account, takes the signed amount out
\* of held without returning it to available, leaves the disputed flag true,
\* and leaves total at its value before the dispute minus the signed amount.
C11_DisputeChargeback ==
  (/\ prevEvent.kind = "dispute"
   /\ prevResult = Ok
   /\ event.kind = "chargeback"
   /\ result = Ok
   /\ evKey = prevKey) =>
    LET c == event.client
        amt == before2.transaction_history[evKey].amount
    IN /\ ~before2.transaction_history[evKey].disputed
       /\ clients[c].frozen
       /\ clients[c].available = before.clients[c].available
       /\ clients[c].available = before2.clients[c].available - amt
       /\ clients[c].held = before.clients[c].held - amt
       /\ clients[c].held = before2.clients[c].held
       /\ transaction_history[evKey] = [amount |-> amt, disputed |-> TRUE]
       /\ total(clients[c]) = total(before2.clients[c]) - amt

\* the second of two deposits was disputed and charged back (spec section 8)
C11_Witness ==
  /\ prevEvent.kind = "dispute"
  /\ prevResult = Ok
  /\ event.kind = "chargeback"
  /\ result = Ok
  /\ evKey = prevKey
  /\ transaction_history[evKey].amount > 0
  /\ ~before2.clients[event.client].frozen
  /\ clients[event.client].available > 0
  /\ clients[event.client].held = 0

\* C12: dispute, resolve and chargeback return ClientNotFound if the client
\* has no account; else TransactionNotFound if (client, tx) is not recorded,
\* also when tx is recorded under another client; else AlreadyDisputed
\* (dispute of a disputed record) or NotDisputed (resolve, chargeback of an
\* undisputed record); they succeed in exactly the remaining cases.
C12_DisputeFamilyErrorOrder ==
  event.kind \in {"dispute", "resolve", "chargeback"} =>
    LET c == event.client
        cl0 == before.clients
        th0 == before.transaction_history
    IN result =
         IF c \notin DOMAIN cl0 THEN ClientNotFound(c)
         ELSE IF evKey \notin DOMAIN th0 THEN TransactionNotFound(c, event.tx)
         ELSE IF event.kind = "dispute" /\ th0[evKey].disputed
              THEN AlreadyDisputed(c, event.tx)
         ELSE IF event.kind # "dispute" /\ ~th0[evKey].disputed
              THEN NotDisputed(c, event.tx)
         ELSE Ok

\* a dispute named a transaction id that only another client has recorded
C12_Witness ==
  /\ event.kind = "dispute"
  /\ event.client \in DOMAIN before.clients
  /\ evKey \notin DOMAIN before.transaction_history
  /\ \E k \in DOMAIN before.transaction_history : k[2] = event.tx /\ k[1] # event.client
  /\ result = TransactionNotFound(event.client, event.tx)

\* C13: once a chargeback of a transaction has succeeded, the transaction's
\* disputed flag is true in every later state, whatever dispute, resolve and
\* chargeback events follow.
C13_ChargebackedTerminal ==
  \A k \in chargebacked :
    k \in DOMAIN transaction_history /\ transaction_history[k].disputed

\* C14: an account is created not frozen; its frozen flag turns true only in
\* a successful chargeback for that client; once true it stays true.
C14_FrozenPermanent ==
  \A c \in DOMAIN clients :
    LET was == c \in DOMAIN before.clients /\ before.clients[c].frozen IN
    /\ was => clients[c].frozen
    /\ (c \notin DOMAIN before.clients) => ~clients[c].frozen
    /\ (clients[c].frozen /\ ~was) =>
         /\ event.kind = "chargeback"
         /\ event.client = c
         /\ result = Ok
    /\ clients[c].frozen <=> (\E k \in chargebacked : k[1] = c)

\* on a frozen account a dispute was resolved, and the account is still frozen
C14_Witness ==
  /\ event.kind = "resolve"
  /\ result = Ok
  /\ before.clients[event.client].frozen
  /\ clients[event.client].frozen
  /\ clients[event.client].available # before.clients[event.client].available

\* C15: a record is created only by a successful deposit (+amount) or
\* withdrawal (-amount), undisputed, and only under a key not yet recorded;
\* every recorded key stays recorded with the same signed amount; dispute,
\* resolve and chargeback add, remove and re-price nothing.
C15_HistoryGrowsAmountsFixed ==
  LET th0 == before.transaction_history IN
  /\ \A k \in DOMAIN th0 :
       /\ k \in DOMAIN transaction_history
       /\ transaction_history[k].amount = th0[k].amount
  /\ \A k \in DOMAIN transaction_history \ DOMAIN th0 :
       /\ k = evKey
       /\ result = Ok
       /\ \/ /\ event.kind = "deposit"
             /\ transaction_history[k] = [amount |-> event.amount, disputed |-> FALSE]
          \/ /\ event.kind = "withdrawal"
             /\ transaction_history[k] = [amount |-> 0 - event.amount, disputed |-> FALSE]
  /\ (event.kind \in {"deposit", "withdrawal"} /\ result = Ok) =>
       /\ evKey \notin DOMAIN th0
       /\ evKey \in DOMAIN transaction_history

\* the record of a withdrawal went through dispute and chargeback and still
\* carries its amount
C15_Witness ==
  /\ prevEvent.kind = "dispute"
  /\ prevResult = Ok
  /\ event.kind = "chargeback"
  /\ result = Ok
  /\ evKey = prevKey
  /\ transaction_history[evKey].amount < 0

\* C16: a call for client c, successful or not, leaves every other client's
\* account and every record under another client as they were, and creates
\* nothing under another client; two records with one transaction id under
\* two clients are independent.
C16_ScopedToClient ==
  event.kind # "none" =>
    LET c == event.client
        cl0 == before.clients
        th0 == before.transaction_history
    IN /\ DOMAIN clients \ {c} = DOMAIN cl0 \ {c}
       /\ \A d \in DOMAIN cl0 \ {c} : clients[d] = cl0[d]
       /\ {k \in DOMAIN transaction_history : k[1] # c} = {k \in DOMAIN th0 : k[1] # c}
       /\ \A k \in DOMAIN th0 : k[1] # c => transaction_history[k] = th0[k]

\* one transaction id is recorded under two clients and a successful dispute
\* of the one record left the other undisputed
C16_Witness ==
  /\ event.kind = "dispute"
  /\ result = Ok
  /\ \E d \in DOMAIN clients \ {event.client} :
       /\ <<d, event.tx>> \in DOMAIN transaction_history
       /\ ~transaction_history[<<d, event.tx>>].disputed
       /\ transaction_history[<<d, event.tx>>].amount > 0
       /\ clients[d].held = 0
  /\ transaction_history[evKey].amount > 0

\* C17: dispatching an event through process_transaction_event returns the
\* result and leaves the store that the matching operation (deposit,
\* withdrawal, dispute, resolve, chargeback) called directly with the event's
\* fields returns and leaves.
C17_PureRouting ==
  LET cl0 == before.clients
      th0 == before.transaction_history
      got == Outcome(result, clients, transaction_history)
  IN /\ event.kind = "deposit" =>
          got = deposit(cl0, th0, event.tx, event.client, event.amount)
     /\ event.kind = "withdrawal" =>
          got = withdrawal(cl0, th0, event.tx, event.client, event.amount)
     /\ event.kind = "dispute" => got = dispute(cl0, th0, event.tx, event.client)
     /\ event.kind = "resolve" => got = resolve(cl0, th0, event.tx, event.client)
     /\ event.kind = "chargeback" => got = chargeback(cl0, th0, event.tx, event.client)

\* a Resolve event was dispatched and released a held amount
C17_Witness ==
  /\ event.kind = "resolve"
  /\ result = Ok
  /\ clients[event.client].held # before.clients[event.client].held
  /\ ~transaction_history[evKey].disputed

\* a row try_from must reject: an unknown label, or a deposit or withdrawal
\* without an amount
RowMalformed(r) ==
  \/ r.transaction_type \notin {"deposit", "withdrawal", "dispute", "resolve", "chargeback"}
  \/ r.transaction_type \in {"deposit", "withdrawal"} /\ r.amount = {}
DecodeErrors == {"MissingAmount", "UnknownType"}

\* C18: over well-formed rows the run never stops for a ledger error: every
\* row read is applied, in the order read, as the event it encodes; a call
\* that returns a ledger error changes nothing and the run goes on; and when
\* the input ends the run returns Ok with one row per client written.
C18_LedgerErrorsDoNotStopRun ==
  /\ runResult \notin DecodeErrors =>
       /\ runResult \in {"running", "Ok"}
       /\ nEvents = rowsRead
       /\ row # NoRow =>
            /\ ~RowMalformed(row)
            /\ event.kind = row.transaction_type
            /\ event.tx = row.tx
            /\ event.client = row.client
            /\ event.kind \in {"deposit", "withdrawal"} => row.amount = {event.amount}
       /\ result.kind \in ErrorKinds => StoreUnchanged
  /\ runResult = "Ok" =>
       output = {[client |-> c,
                  available |-> clients[c].available,
                  held |-> clients[c].held,
                  total |-> clients[c].available + clients[c].held,
                  locked |-> clients[c].frozen] : c \in DOMAIN clients}

\* the last two rows of a run both met a ledger error and the run still
\* ended with the client rows written
C18_Witness ==
  /\ runResult = "Ok"
  /\ rowsRead = 3
  /\ result.kind \in ErrorKinds
  /\ prevResult.kind \in ErrorKinds
  /\ \E r \in output : r.available > 0

\* C19: a row that does not decode (deposit or withdrawal without amount, or
\* an unknown label) ends the run with the decode error: the row is not
\* passed to the ledger, no row is read after it, and no client row is
\* written, while the rows before it stay applied.
C19_DecodeErrorAborts ==
  /\ (row # NoRow /\ RowMalformed(row)) =>
       /\ runResult = IF row.transaction_type \in {"deposit", "withdrawal"}
                      THEN "MissingAmount" ELSE "UnknownType"
       /\ nEvents = rowsRead - 1
       /\ output = {}
  /\ runResult \in DecodeErrors => (row # NoRow /\ RowMalformed(row))

\* a deposit was applied, then a withdrawal row without amount ended the run
C19_Witness ==
  /\ runResult = "MissingAmount"
  /\ row.transaction_type = "withdrawal"
  /\ rowsRead = 2
  /\ nEvents = 1
  /\ \E c \in DOMAIN clients : clients[c].available > 0
  /\ output = {}

\* C20: clients_iter yields exactly one summary per account of the store and
\* none for another id, each with the account's available, held and frozen
\* and total = available + held; the call leaves accounts and history as they
\* were; two calls with no event between them yield the same summaries.
C20_SnapshotPureRead ==
  event.kind = "clients_iter" =>
    /\ StoreUnchanged
    /\ summaries = {[id |-> c,
                     available |-> clients[c].available,
                     held |-> clients[c].held,
                     total |-> clients[c].available + clients[c].held,
                     frozen |-> clients[c].frozen] : c \in DOMAIN clients}
    /\ {s.id : s \in summaries} = DOMAIN clients
    /\ Cardinality(summaries) = Cardinality(DOMAIN clients)
    /\ prevEvent.kind = "clients_iter" => summaries = prevSummaries

\* two snapshots in a row of a store with a held amount and two accounts
C20_Witness ==
  /\ event.kind = "clients_iter"
  /\ prevEvent.kind = "clients_iter"
  /\ \E s \in summaries : s.held > 0 /\ s.total # s.available
  /\ summaries = prevSummaries

OtherFrozen ==
  [before.clients EXCEPT ![event.client].frozen = ~@]

\* C22: the frozen flag gates only deposit and withdrawal. A dispute, resolve
\* or chargeback never returns AccountFrozen, and on an existing account it
\* returns the same result and leaves the same available, held and recorded
\* transactions (disputed flags included) as the same call made on the same
\* store with the account's frozen flag turned the other way.
C22_FrozenGatesOnlyDepositWithdrawal ==
  event.kind \in {"dispute", "resolve", "chargeback"} =>
    /\ result.kind # "AccountFrozen"
    /\ event.client \in DOMAIN before.clients =>
         LET c == event.client
             other == process_transaction_event(OtherFrozen,
                                                before.transaction_history, event)
         IN /\ result = other.result
            /\ clients[c].available = other.clients[c].available
            /\ clients[c].held = other.clients[c].held
            /\ transaction_history = other.transaction_history
            /\ \A d \in DOMAIN clients \ {c} : clients[d] = other.clients[d]
            /\ clients[c].frozen =
                 IF event.kind = "chargeback" /\ result = Ok
                 THEN TRUE ELSE before.clients[c].frozen

\* a deposit of a positive amount was disputed with success on an account that
\* was frozen already
C22_Witness ==
  /\ event.kind = "dispute"
  /\ result = Ok
  /\ before.clients[event.client].frozen
  /\ transaction_history[evKey].amount > 0
  /\ clients[event.client].held = before.clients[event.client].held + 1
  /\ clients[event.client].available = before.clients[event.client].available - 1

\* the key (client, tx) of the running dispute/resolve run
runKey == <<disputeRun.client, disputeRun.tx>>

\* C23: a resolved transaction can be disputed again. In a run of dispute and
\* resolve calls on one key that began with a successful dispute: a dispute
\* called after a successful resolve, while the record is undisputed,
\* succeeds (no AlreadyDisputed) and moves the signed amount from available
\* to held again; and after any number of cycles, whenever the record is
\* undisputed, available and held are what they were before the first
\* dispute (and while it is disputed, they are off by exactly the amount).
C23_DisputeResolveCycles ==
  disputeRun.active =>
    LET c == disputeRun.client
        amt == transaction_history[runKey].amount
    IN /\ ~transaction_history[runKey].disputed =>
            /\ clients[c].available = disputeRun.available
            /\ clients[c].held = disputeRun.held
       /\ transaction_history[runKey].disputed =>
            /\ clients[c].available = disputeRun.available - amt
            /\ clients[c].held = disputeRun.held + amt
       /\ (/\ disputeRun.cycles >= 1
           /\ event.kind = "dispute"
           /\ evKey = runKey
           /\ ~before.transaction_history[runKey].disputed) =>
            /\ result = Ok
            /\ transaction_history[runKey].disputed
            /\ clients[c].available = before.clients[c].available - amt
            /\ clients[c].held = before.clients[c].held + amt

\* the third cycle on a deposit of a positive amount has ended: three resolves
\* succeeded, the last one just now, after a dispute that followed a resolve
C23_Witness ==
  /\ disputeRun.active
  /\ disputeRun.cycles >= 3
  /\ event.kind = "resolve"
  /\ result = Ok
  /\ prevEvent.kind = "dispute"
  /\ prevResult = Ok
  /\ evKey = runKey
  /\ transaction_history[runKey].amount > 0
  /\ ~transaction_history[runKey].disputed
  /\ clients[disputeRun.client].available = disputeRun.available
  /\ disputeRun.available > 0

\* the stores that at most n more calls, of any kind and in any order, lead
\* to from the store s0
RECURSIVE StoresWithin(_, _)
StoresWithin(s0, n) ==
  IF n <= 0 THEN {s0}
  ELSE LET earlier == StoresWithin(s0, n - 1)
           outs == {process_transaction_event(s.clients, s.transaction_history, ev) :
                      s \in earlier, ev \in Events}
       IN earlier \cup {Store(o.clients, o.transaction_history) : o \in outs}

\* C24 as stated: some store that the calls still to come can lead to has a
\* client with available >= 0 and a recorded withdrawal (a record whose
\* signed amount is not positive) of that client whose dispute succeeds and
\* leaves available < 0.
C24_WithdrawalDisputeGoesNegative ==
  \E s \in StoresWithin(Store(clients, transaction_history),
                         MaxEvents - 1 - nEvents) :
    \E key \in DOMAIN s.transaction_history :
      LET c == key[1]
          out == dispute(s.clients, s.transaction_history, key[2], c)
      IN /\ s.transaction_history[key].amount <= 0
         /\ s.clients[c].available >= 0
         /\ out.result = Ok
         /\ out.clients[c].available < 0

\* C24, amended: a successful dispute of a recorded withdrawal of amount a
\* (signed amount -a) raises available by a and lowers held by a, so it never
\* takes available from >= 0 to < 0; whenever a successful dispute does take
\* available from >= 0 to < 0, the disputed record is a deposit of a
\* positive amount.
C24_DepositDisputeGoesNegative ==
  (event.kind = "dispute" /\ result = Ok) =>
    LET c == event.client
        amt == transaction_history[evKey].amount
    IN /\ amt <= 0 =>
            /\ clients[c].available = before.clients[c].available - amt
            /\ clients[c].available >= before.clients[c].available
            /\ clients[c].held = before.clients[c].held + amt
            /\ clients[c].held <= before.clients[c].held
       /\ (before.clients[c].available >= 0 /\ clients[c].available < 0) =>
            amt > 0

\* a deposit was disputed after its funds had been withdrawn: available went
\* from 0 to below 0
C24_Witness ==
  /\ event.kind = "dispute"
  /\ result = Ok
  /\ transaction_history[evKey].amount > 0
  /\ before.clients[event.client].available >= 0
  /\ clients[event.client].available < 0
  /\ \E k \in DOMAIN transaction_history :
       k[1] = event.client /\ transaction_history[k].amount < 0

\* a withdrawal of a positive amount was disputed: available went up and held
\* went below zero
C24_WithdrawalDisputed ==
  /\ event.kind = "dispute"
  /\ result = Ok
  /\ transaction_history[evKey].amount < 0
  /\ clients[event.client].available > before.clients[event.client].available
  /\ clients[event.client].held < 0

\* C25 as stated: no successful chargeback, of a deposit or of a withdrawal,
\* leaves the client's total (available + held) higher than it was right
\* before that chargeback.
C25_ChargebackNeverRaisesTotal ==
  (event.kind = "chargeback" /\ result = Ok) =>
    total(clients[event.client]) <= total(before.clients[event.client])

\* C25, amended: a successful chargeback changes the client's total by
\* exactly minus the record's signed amount and leaves available alone: the
\* total is never higher after the chargeback of a deposit, and it is higher
\* by a after the chargeback of a withdrawal of amount a.
C25_ChargebackTotalBySign ==
  (event.kind = "chargeback" /\ result = Ok) =>
    LET c == event.client
        amt == transaction_history[evKey].amount
    IN /\ total(clients[c]) = total(before.clients[c]) - amt
       /\ clients[c].available = before.clients[c].available
       /\ amt >= 0 => total(clients[c]) <= total(before.clients[c])
       /\ amt < 0 => total(clients[c]) > total(before.clients[c])

\* a withdrawal of a positive amount was charged back: the total went up
C25_Witness ==
  /\ event.kind = "chargeback"
  /\ result = Ok
  /\ transaction_history[evKey].amount < 0
  /\ total(clients[event.client]) = total(before.clients[event.client]) + 1
  /\ total(clients[event.client]) > 0

\* the sum of the signed amounts of the records of th under the given keys
RECURSIVE SumAmounts(_, _)
SumAmounts(th, keys) ==
  IF keys = {} THEN 0
  ELSE LET k == CHOOSE x \in keys : TRUE
       IN th[k].amount + SumAmounts(th, keys \ {k})

\* the keys of the records of a client, and of its disputed records
KeysOf(client_id) == {k \in DOMAIN transaction_history : k[1] = client_id}
DisputedKeysOf(client_id) ==
  {k \in KeysOf(client_id) : transaction_history[k].disputed}

\* C26: balance reconciliation. For every account whose frozen flag is false,
\* held is the sum of the signed amounts of that client's records whose
\* disputed flag is true, and available + held is the sum of the signed
\* amounts of all of that client's records.
C26_Reconciliation ==
  \A c \in DOMAIN clients :
    ~clients[c].frozen =>
      /\ clients[c].held = SumAmounts(transaction_history, DisputedKeysOf(c))
      /\ total(clients[c]) = SumAmounts(transaction_history, KeysOf(c))

\* an unfrozen account with a deposit, a withdrawal and a dispute behind it:
\* one of its two records is disputed, held and available are not zero
C26_Witness ==
  /\ event.kind = "dispute"
  /\ result = Ok
  /\ ~clients[event.client].frozen
  /\ Cardinality(KeysOf(event.client)) = 2
  /\ Cardinality(DisputedKeysOf(event.client)) = 1
  /\ \E k \in KeysOf(event.client) : transaction_history[k].amount < 0
  /\ clients[event.client].held # 0
  /\ clients[event.client].available # 0

====
